---- MODULE Spec2Model ----
(***************************************************************************)
(* A model of parameters.py: the Element, Configuration and Cowan classes  *)
(* and the main driver.  Python strings are sequences of one-character     *)
(* strings, so that the regular expressions, int(), str.format() and       *)
(* str.upper() are modelled by what they do to the characters.             *)
(***************************************************************************)
EXTENDS Integers, Sequences, FiniteSets, TLC

VARIABLES
    \* Configuration object (parameters.py:73-338)
    cpc,            \* position of the code that uses the Configuration
    arg,            \* the string handed to Configuration(...) or to name =
    name,           \* Configuration._name
    levels,         \* Configuration.levels
    shells,         \* Configuration.shells
    occupancies,    \* Configuration.occupancies
    subshells,      \* Configuration.subshells
    cerr,           \* exception (type, message) raised by the last call
    normalized,     \* last result of Cowan.normalize_configuration_name
    \* atomic_parameters setter (parameters.py:155-326)
    values,         \* the sequence assigned to atomic_parameters
    key,            \* the local list "key" of the setter (lines 309-320)
    atomic_parameters, \* Configuration._atomic_parameters
    \* Element object (parameters.py:25-70)
    epc, symbol, charge, valence_occupancy, eerr,
    \* Cowan.get_parameters / main (parameters.py:388-504)
    rpc, remove, debug, rcn_out, status, ran, parameters, energy

confVars == <<cpc, arg, name, levels, shells, occupancies, subshells, cerr, normalized>>
parVars  == <<values, key, atomic_parameters>>
elemVars == <<epc, symbol, charge, valence_occupancy, eerr>>
runVars  == <<rpc, remove, debug, rcn_out, status, ran, parameters, energy>>
vars == <<confVars, parVars, elemVars, runVars>>

----------------------------------------------------------------------------
(* Bounds of the model *)

\* largest occupancy number written in a generated configuration string
MaxOccupancy == 15
\* largest number of leading zeros put in front of an occupancy
MaxPad == 1
\* longest string of arbitrary characters tried as a configuration string
MaxJunk == 3

----------------------------------------------------------------------------
(* Characters and strings *)

DIGITS == <<"0", "1", "2", "3", "4", "5", "6", "7", "8", "9">>
LOWER == <<"a", "b", "c", "d", "e", "f", "g", "h", "i", "j", "k", "l", "m",
           "n", "o", "p", "q", "r", "s", "t", "u", "v", "w", "x", "y", "z">>
UPPER == <<"A", "B", "C", "D", "E", "F", "G", "H", "I", "J", "K", "L", "M",
           "N", "O", "P", "Q", "R", "S", "T", "U", "V", "W", "X", "Y", "Z">>

Range(f) == {f[i] : i \in DOMAIN f}

DigitChars == Range(DIGITS)
WordChars == Range(DIGITS) \cup Range(LOWER) \cup Range(UPPER) \cup {"_"}

\* regular expression class \d (ASCII digits)
IsDigit(c) == c \in DigitChars
\* regular expression class \w
IsWord(c) == c \in WordChars

AllDigits(s) == \A i \in DOMAIN s : IsDigit(s[i])

DigitVal(c) == (CHOOSE i \in DOMAIN DIGITS : DIGITS[i] = c) - 1

\* int(s) for a string of digits
RECURSIVE int(_)
int(s) == IF Len(s) = 0 THEN 0
          ELSE 10 * int(SubSeq(s, 1, Len(s) - 1)) + DigitVal(s[Len(s)])

\* "{:d}".format(n) and str(n) for n >= 0
RECURSIVE Dec(_)
Dec(n) == IF n < 10 THEN <<DIGITS[n + 1]>>
          ELSE Dec(n \div 10) \o <<DIGITS[(n % 10) + 1]>>

\* "{:02d}".format(n) for n >= 0
Dec02(n) == IF n < 10 THEN <<"0">> \o Dec(n) ELSE Dec(n)

\* str.upper(), character by character
UpperChar(c) == IF c \in Range(LOWER)
                THEN UPPER[CHOOSE i \in DOMAIN LOWER : LOWER[i] = c]
                ELSE c
Upper(s) == [i \in DOMAIN s |-> UpperChar(s[i])]

\* the test  sub in s  of two strings
Contains(s, sub) ==
    \E i \in 0..(Len(s) - Len(sub)) : SubSeq(s, i + 1, i + Len(sub)) = sub

\* str.rstrip() for the white space that occurs in the model
RECURSIVE RStrip(_)
RStrip(s) == IF Len(s) > 0 /\ s[Len(s)] \in {" ", "\n"}
             THEN RStrip(SubSeq(s, 1, Len(s) - 1))
             ELSE s

\* sep.join(parts)
RECURSIVE Join(_, _)
Join(sep, parts) ==
    IF Len(parts) = 0 THEN <<>>
    ELSE IF Len(parts) = 1 THEN parts[1]
    ELSE parts[1] \o sep \o Join(sep, Tail(parts))

Min(a, b) == IF a < b THEN a ELSE b

----------------------------------------------------------------------------
(* Configuration.name setter, parameters.py:83-123 *)

OCCUPANCIES == [s |-> 2, p |-> 6, d |-> 10, f |-> 14]

\* the text that a pattern ending in $ may consume: all of the string, or
\* all but a final newline
BeforeDollar(s) ==
    IF Len(s) > 0 /\ s[Len(s)] = "\n" THEN SubSeq(s, 1, Len(s) - 1) ELSE s

\* (\d)(\w)(\d+) matched against the whole of t: the sequence of its groups
Triple(t) == <<<<t[1]>>, <<t[2]>>, SubSeq(t, 3, Len(t))>>
IsTriple(t) == /\ Len(t) >= 3
               /\ IsDigit(t[1])
               /\ IsWord(t[2])
               /\ AllDigits(SubSeq(t, 3, Len(t)))

\* re.findall(r"^(\d)(\w)(\d+)$", value): a list of at most one 3-tuple
FindAllValence(value) ==
    LET t == BeforeDollar(value)
    IN  IF IsTriple(t) THEN <<Triple(t)>> ELSE <<>>

\* re.findall(r"^(\d)(\w)(\d+),(\d)(\w)(\d+)$", value): at most one 6-tuple
FindAllCore(value) ==
    LET t == BeforeDollar(value)
        commas == {k \in DOMAIN t : /\ t[k] = ","
                                    /\ IsTriple(SubSeq(t, 1, k - 1))
                                    /\ IsTriple(SubSeq(t, k + 1, Len(t)))}
    IN  IF commas = {} THEN <<>>
        ELSE LET k == CHOOSE k \in commas : TRUE
             IN  <<Triple(SubSeq(t, 1, k - 1)) \o Triple(SubSeq(t, k + 1, Len(t)))>>

\* tokens = [token for pattern in PATTERNS for token in re.findall(...)]
Tokens(value) == FindAllCore(value) \o FindAllValence(value)

NoError == [type |-> "none", msg |-> ""]
Raise(type, msg) == [type |-> type, msg |-> msg]

\* occupancy > self.OCCUPANCIES[shell]; the lookup raises KeyError first
KnownShell(shell) == shell \in DOMAIN OCCUPANCIES
\* a full shell counted as too many
TooManyOrFull(shell, occupancy) == occupancy >= OCCUPANCIES[shell]
TooMany(shell, occupancy) == occupancy > OCCUPANCIES[shell]

\* the label written shell first
SubshellsShellFirst(lv, sh) ==
    [i \in 1..Min(Len(lv), Len(sh)) |-> <<sh[i]>> \o Dec(lv[i])]

\* line 121: the subshell labels of zip(self.levels, self.shells)
Subshells(lv, sh) ==
    [i \in 1..Min(Len(lv), Len(sh)) |-> Dec(lv[i]) \o <<sh[i]>>]

\* The outcome of  self.name = value  on the object self: the exception
\* raised and the fields of the object afterwards.  Every raise precedes the
\* first assignment (line 113 or 117), so a failing call leaves self as it is.
SetName(value, self) ==
    LET tokens == Tokens(value)
        fail(type, msg) == [self EXCEPT !.err = Raise(type, msg)]
        done(lv, sh, oc) == [err |-> NoError, name |-> value, levels |-> lv,
                             shells |-> sh, occupancies |-> oc,
                             subshells |-> Subshells(lv, sh)]
    IN  IF Len(tokens) = 0
        THEN fail("ValueError", "Invalid configuration string.")
        ELSE IF Len(tokens) # 1
        THEN fail("ValueError", "too many values to unpack")
        ELSE
        LET tk == tokens[1]
            core == IF Len(tk) = 6 THEN SubSeq(tk, 1, 3) ELSE <<>>
            valence == SubSeq(tk, Len(tk) - 2, Len(tk))
            valence_level == int(valence[1])
            valence_shell == valence[2][1]
            valence_occ == int(valence[3])
        IN  IF ~KnownShell(valence_shell)
            THEN fail("KeyError", valence_shell)
            ELSE IF TooMany(valence_shell, valence_occ)
            THEN fail("ValueError", "Wrong number of electrons in the valence shell.")
            ELSE IF Len(core) # 0
            THEN LET core_level == int(core[1])
                     core_shell == core[2][1]
                     core_occupancy == int(core[3])
                 IN  IF ~KnownShell(core_shell)
                     THEN fail("KeyError", core_shell)
                     ELSE IF TooMany(core_shell, core_occupancy)
                     THEN fail("ValueError", "Wrong number of electrons in the core shell.")
                     ELSE done(<<core_level, valence_level>>,
                               <<core_shell, valence_shell>>,
                               <<core_occupancy, valence_occ>>)
            ELSE done(<<valence_level>>, <<valence_shell>>, <<valence_occ>>)

\* Configuration.is_excited
is_excited == Len(shells) = 2

\* the name joined with a comma and a space
SubshellsNameSpaced(subs, occs) ==
    Join(<<",", " ">>, [i \in 1..Min(Len(subs), Len(occs)) |-> subs[i] \o Dec(occs[i])])

\* name built by Configuration.from_subshells_and_occupancies
SubshellsName(subs, occs) ==
    Join(<<",">>, [i \in 1..Min(Len(subs), Len(occs)) |-> subs[i] \o Dec(occs[i])])

----------------------------------------------------------------------------
(* Cowan.normalize_configuration_name, parameters.py:372-386 *)

\* the branch of line 383 left out
NormalizedSubshell5dOnly(subshell, subs, nm) ==
    IF Contains(subshell, <<"5", "d">>) /\ ~(\E i \in DOMAIN subs : subs[i] = <<"4", "f">>)
    THEN <<"4", "f", "1", "4", " ", "5", "d">>
    ELSE subshell

NormalizedSubshell(subshell, subs, nm) ==
    IF Contains(subshell, <<"5", "d">>) /\ ~(\E i \in DOMAIN subs : subs[i] = <<"4", "f">>)
    THEN <<"4", "f", "1", "4", " ", "5", "d">>
    ELSE IF Contains(subshell, <<"4", "f">>) /\ ~Contains(nm, <<"3", "d">>)
    THEN <<"3", "d", "1", "0", " ", "4", "f">>
    ELSE subshell

RECURSIVE NormalizeLoop(_, _, _, _, _)
NormalizeLoop(i, acc, subs, occs, nm) ==
    IF i > Min(Len(subs), Len(occs)) THEN acc
    ELSE NormalizeLoop(i + 1,
                       acc \o Upper(NormalizedSubshell(subs[i], subs, nm))
                           \o Dec02(occs[i]) \o <<" ">>,
                       subs, occs, nm)

normalize_configuration_name(subs, occs, nm) ==
    RStrip(NormalizeLoop(1, <<>>, subs, occs, nm))

----------------------------------------------------------------------------
(* Configuration.atomic_parameters setter, parameters.py:155-326 *)

\* A name template such as "F2({0:d}p,{1:d}d)" is the record of its kind (the
\* text before the parenthesis, "zeta" for the spin-orbit letter) and of its
\* replacement fields: the index of the level and the shell letter after it.
T1(kind, i, x) == [kind |-> kind, args |-> <<<<i, x>>>>]
T2(kind, i, x, j, y) == [kind |-> kind, args |-> <<<<i, x>>, <<j, y>>>>]

MAPPINGS == <<
    [key |-> <<"d">>,
     names |-> <<T2("U", 0, "d", 0, "d"), T2("F2", 0, "d", 0, "d"),
                 T2("F4", 0, "d", 0, "d"), T1("zeta", 0, "d")>>,
     indices |-> {<<<<0>>,  <<-1, -1, -1, -1>>>>,
                  <<<<1>>,  <<-1, -1, -1, 0>>>>,
                  <<<<-1>>, <<-1, 0, 1, 2>>>>}],
    [key |-> <<"s", ",", "d">>,
     names |-> <<T2("U", 1, "d", 1, "d"), T2("F2", 1, "d", 1, "d"),
                 T2("F4", 1, "d", 1, "d"), T2("U", 0, "s", 1, "d"),
                 T2("G2", 0, "s", 1, "d"), T1("zeta", 1, "d")>>,
     indices |-> {<<<<0, 0>>,   <<-1, -1, -1, -1, -1, -1>>>>,
                  <<<<0, 1>>,   <<-1, -1, -1, -1, -1, 0>>>>,
                  <<<<0, -1>>,  <<-1, 0, 1, -1, -1, 2>>>>,
                  <<<<-1, 0>>,  <<-1, -1, -1, -1, -1, -1>>>>,
                  <<<<-1, 1>>,  <<-1, -1, -1, -1, 1, 0>>>>,
                  <<<<-1, -1>>, <<-1, 0, 1, -1, 3, 2>>>>}],
    [key |-> <<"p", ",", "d">>,
     names |-> <<T2("U", 1, "d", 1, "d"), T2("F2", 1, "d", 1, "d"),
                 T2("F4", 1, "d", 1, "d"), T2("U", 0, "p", 1, "d"),
                 T2("F2", 0, "p", 1, "d"), T2("G1", 0, "p", 1, "d"),
                 T2("G3", 0, "p", 1, "d"), T1("zeta", 1, "d"),
                 T1("zeta", 0, "p")>>,
     indices |-> {<<<<0, 0>>,   <<-1, -1, -1, -1, -1, -1, -1, -1, -1>>>>,
                  <<<<0, 1>>,   <<-1, -1, -1, -1, -1, -1, -1, 0, -1>>>>,
                  <<<<0, -1>>,  <<-1, 0, 1, -1, -1, -1, -1, 2, -1>>>>,
                  <<<<1, 0>>,   <<-1, -1, -1, -1, -1, -1, -1, -1, 0>>>>,
                  <<<<1, 1>>,   <<-1, -1, -1, -1, 2, 3, 4, 1, 0>>>>,
                  <<<<1, -1>>,  <<-1, 0, 1, -1, 4, 5, 6, 3, 2>>>>,
                  <<<<-1, 0>>,  <<-1, -1, -1, -1, -1, -1, -1, -1, 1>>>>,
                  <<<<-1, 1>>,  <<-1, -1, -1, -1, 3, 4, 5, 2, 1>>>>,
                  <<<<-1, -1>>, <<-1, 1, 2, -1, 5, 6, 7, 4, 3>>>>}],
    [key |-> <<"f">>,
     names |-> <<T2("U", 0, "f", 0, "f"), T2("F2", 0, "f", 0, "f"),
                 T2("F4", 0, "f", 0, "f"), T2("F6", 0, "f", 0, "f"),
                 T2("U", 0, "s", 1, "f"), T1("zeta", 0, "f")>>,
     indices |-> {<<<<0>>,  <<-1, -1, -1, -1, -1>>>>,
                  <<<<1>>,  <<-1, -1, -1, -1, 0>>>>,
                  <<<<-1>>, <<-1, 0, 1, 2, 3>>>>}],
    [key |-> <<"s", ",", "f">>,
     names |-> <<T2("U", 1, "f", 1, "f"), T2("F2", 1, "f", 1, "f"),
                 T2("F4", 1, "f", 1, "f"), T2("F6", 1, "f", 1, "f"),
                 T2("U", 0, "s", 1, "d"), T1("zeta", 1, "f")>>,
     indices |-> {<<<<0, 0>>,   <<-1, -1, -1, -1, -1>>>>,
                  <<<<0, 1>>,   <<-1, -1, -1, -1, 0>>>>,
                  <<<<0, -1>>,  <<-1, 0, 1, 2, 3>>>>,
                  <<<<-1, -1>>, <<-1, 0, 1, 2, 3>>>>}],
    [key |-> <<"p", ",", "f">>,
     names |-> <<T2("U", 1, "f", 1, "f"), T2("F2", 1, "f", 1, "f"),
                 T2("F4", 1, "f", 1, "f"), T2("F6", 1, "f", 1, "f"),
                 T2("U", 0, "p", 1, "f"), T2("F2", 0, "p", 1, "f"),
                 T2("G2", 0, "p", 1, "f"), T2("G4", 0, "p", 1, "f"),
                 T1("zeta", 1, "f"), T1("zeta", 0, "p")>>,
     indices |-> {<<<<0, 0>>,   <<-1, -1, -1, -1, -1, -1, -1, -1, -1, -1>>>>,
                  <<<<0, 1>>,   <<-1, -1, -1, -1, -1, -1, -1, -1, 0, -1>>>>,
                  <<<<0, -1>>,  <<-1, 0, 1, 2, -1, -1, -1, -1, 3, -1>>>>,
                  <<<<1, 0>>,   <<-1, -1, -1, -1, -1, -1, -1, -1, -1, 0>>>>,
                  <<<<1, 1>>,   <<-1, -1, -1, -1, -1, 2, 3, -1, 1, 0>>>>,
                  <<<<1, -1>>,  <<-1, 0, 1, 2, -1, 5, 6, 7, 4, 3>>>>,
                  <<<<-1, -1>>, <<-1, 1, 2, 3, -1, 6, 7, 8, 5, 4>>>>}],
    [key |-> <<"d", ",", "f">>,
     names |-> <<T2("U", 0, "f", 0, "f"), T2("F2", 0, "f", 0, "f"),
                 T2("F4", 0, "f", 0, "f"), T2("F6", 0, "f", 0, "f"),
                 T2("U", 0, "d", 1, "f"), T2("F2", 0, "d", 1, "f"),
                 T2("F4", 0, "d", 1, "f"), T2("G1", 0, "d", 1, "f"),
                 T2("G3", 0, "d", 1, "f"), T2("G5", 0, "d", 1, "f"),
                 T1("zeta", 1, "f"), T1("zeta", 0, "d")>>,
     indices |-> {<<<<0, 0>>,   <<-1, -1, -1, -1, -1, -1, -1, -1, -1, -1, -1, -1>>>>,
                  <<<<0, 1>>,   <<-1, -1, -1, -1, -1, -1, -1, -1, -1, -1, 0, -1>>>>,
                  <<<<0, -1>>,  <<-1, 0, 1, 2, -1, -1, -1, -1, -1, -1, 3, -1>>>>,
                  <<<<1, 0>>,   <<-1, -1, -1, -1, -1, -1, -1, -1, -1, -1, -1, 0>>>>,
                  <<<<1, 1>>,   <<-1, -1, -1, -1, -1, 2, 3, 4, 5, 6, 1, 0>>>>,
                  <<<<1, -1>>,  <<-1, 0, 1, 2, -1, 5, 6, 7, 8, 9, 4, 3>>>>,
                  <<<<-1, -1>>, <<-1, 2, 3, 4, -1, 7, 8, 9, 10, 11, 6, 5>>>>}]
    >>

\* key in MAPPINGS, and MAPPINGS[key]
HasMapping(k) == \E i \in DOMAIN MAPPINGS : MAPPINGS[i].key = k
Mapping(k) == MAPPINGS[CHOOSE i \in DOMAIN MAPPINGS : MAPPINGS[i].key = k]

\* tuple(key) in indices, and indices[tuple(key)]
HasRow(indices, k) == \E e \in indices : e[1] = k
Row(indices, k) == (CHOOSE e \in indices : e[1] = k)[2]

\* the test of line 315 left out
OccupancyKeyNoS(occupancy, shell) ==
    LET max_occupancy == OCCUPANCIES[shell]
    IN  IF occupancy \in {0, max_occupancy} THEN 0
        ELSE IF occupancy \in {1, max_occupancy - 1} THEN 1
        ELSE -1

\* line 314 without the shell with one hole
OccupancyKeyOneOnly(occupancy, shell) ==
    LET max_occupancy == OCCUPANCIES[shell]
    IN  IF occupancy \in {0, max_occupancy} THEN 0
        ELSE IF occupancy = 1
        THEN (IF shell = "s" THEN -1 ELSE 1)
        ELSE -1

\* The body of the loop of lines 310-320: the number appended to key for one
\* shell: 0, 1 or -1.
OccupancyKey(occupancy, shell) ==
    LET max_occupancy == OCCUPANCIES[shell]
    IN  IF occupancy \in {0, max_occupancy} THEN 0
        ELSE IF occupancy \in {1, max_occupancy - 1}
        THEN (IF shell = "s" THEN -1 ELSE 1)
        ELSE -1

\* key after the loop over zip(self.occupancies, self.shells)
KeyOf(occs, shs) ==
    [i \in 1..Min(Len(occs), Len(shs)) |-> OccupancyKey(occs[i], shs[i])]

\* name.format(*self.levels): fails when a replacement field names a level
\* that the configuration does not have
CanFormat(template, lvls) ==
    \A i \in DOMAIN template.args : template.args[i][1] < Len(lvls)
Format(template, lvls) ==
    [kind |-> template.kind,
     subshells |-> [i \in DOMAIN template.args |->
                        Dec(lvls[template.args[i][1] + 1]) \o <<template.args[i][2]>>]]

\* the value stored for the name with this index; -1 marks the names that
\* get 0.0
FILLER == 0
HasValue(vals, index) == index = -1 \/ index < Len(vals)
\* values[index] without the test for -1: the last raw value
ValueAtLast(vals, index) ==
    IF index # -1 THEN vals[index + 1]
    ELSE IF Len(vals) > 0 THEN vals[Len(vals)] ELSE FILLER
ValueAt(vals, index) == IF index # -1 THEN vals[index + 1] ELSE FILLER

\* self._atomic_parameters[name] = value  on an ordered dictionary, kept as a
\* sequence of (name, value) pairs
Store(dict, nm, value) ==
    IF \E i \in DOMAIN dict : dict[i][1] = nm
    THEN [i \in DOMAIN dict |-> IF dict[i][1] = nm THEN <<nm, value>> ELSE dict[i]]
    ELSE Append(dict, <<nm, value>>)

\* the loop of lines 323-326 from the i-th pair of zip(names, indices) on
RECURSIVE StoreLoop(_, _, _, _, _, _)
StoreLoop(i, dict, names, row, lvls, vals) ==
    IF i > Min(Len(names), Len(row)) THEN [err |-> NoError, dict |-> dict]
    ELSE IF ~CanFormat(names[i], lvls)
    THEN [err |-> Raise("IndexError", "Replacement index out of range"), dict |-> dict]
    ELSE IF ~HasValue(vals, row[i])
    THEN [err |-> Raise("IndexError", "list index out of range"), dict |-> dict]
    ELSE StoreLoop(i + 1, Store(dict, Format(names[i], lvls), ValueAt(vals, row[i])),
                   names, row, lvls, vals)

\* The outcome of  self.atomic_parameters = vals : the exception raised, the
\* local key and the new _atomic_parameters (old is kept when the setter
\* fails before line 322).
SetAtomicParameters(vals, lvls, shs, occs, old) ==
    LET family == Join(<<",">>, [i \in DOMAIN shs |-> <<shs[i]>>])
    IN  IF ~HasMapping(family)
        THEN [err |-> Raise("KeyError", "MAPPINGS"), key |-> <<>>, dict |-> old]
        ELSE LET m == Mapping(family)
                 k == KeyOf(occs, shs)
             IN  IF ~HasRow(m.indices, k)
                 THEN [err |-> Raise("KeyError", "indices"), key |-> k, dict |-> old]
                 ELSE LET r == StoreLoop(1, <<>>, m.names, Row(m.indices, k), lvls, vals)
                      IN  [err |-> r.err, key |-> k, dict |-> r.dict]

----------------------------------------------------------------------------
(* Configuration strings tried by the model *)

LevelChars == {"1", "3", "4", "5"}
ShellChars == {"s", "p", "d", "f", "g"}
JunkChars == {"1", "d", ",", "_", "D", " ", "\n"}

Zeros(k) == [i \in 1..k |-> "0"]

\* level, shell and occupancy written with k leading zeros
Written(l, sh, n, k) == <<l, sh>> \o Zeros(k) \o Dec(n)

PlainSingles == {Written(l, sh, n, 0) : l \in LevelChars, sh \in ShellChars,
                                        n \in 0..MaxOccupancy}
PaddedSingles == UNION {{Written(l, sh, n, k) : l \in LevelChars, sh \in ShellChars,
                                                n \in 0..MaxOccupancy} : k \in 1..MaxPad}
Doubles == {a \o <<",">> \o b : a \in PlainSingles, b \in PlainSingles}
PaddedDoubles == {a \o <<",">> \o b : a \in PaddedSingles, b \in PaddedSingles}

RECURSIVE Strings(_, _)
Strings(chars, n) ==
    IF n = 0 THEN {<<>>}
    ELSE LET shorter == Strings(chars, n - 1)
         IN  shorter \cup {Append(s, c) : s \in shorter, c \in chars}

Junk == Strings(JunkChars, MaxJunk)

Inputs == PlainSingles \cup PaddedSingles \cup Doubles \cup Junk
          \cup {s \o <<"\n">> : s \in PlainSingles}

\* the strings assigned to the name of an existing Configuration
AssignLevels == {"3"}
AssignShells == {"s", "d", "g"}
AssignOccupancies == {<<"1">>, <<"0", "6">>, <<"1", "1">>}
AssignSingles == {<<l, sh>> \o o : l \in AssignLevels, sh \in AssignShells,
                                   o \in AssignOccupancies}
AssignInputs == AssignSingles
                \cup {a \o <<",">> \o b : a \in AssignSingles, b \in AssignSingles}
                \cup {s \o <<"\n">> : s \in AssignSingles}
                \cup Strings(JunkChars, 1)

----------------------------------------------------------------------------
(* The Configuration object and the code that uses it *)

Self == [err |-> cerr, name |-> name, levels |-> levels, shells |-> shells,
         occupancies |-> occupancies, subshells |-> subshells]

\* the object after a call that returned r
Becomes(r) ==
    /\ cerr' = r.err
    /\ name' = r.name
    /\ levels' = r.levels
    /\ shells' = r.shells
    /\ occupancies' = r.occupancies
    /\ subshells' = r.subshells

Exists == cpc \in {"built", "derived", "normalized", "assigned", "rejected"}

ConfInit(inputs) ==
    /\ cpc = "new"
    /\ arg \in inputs
    /\ name = <<>> /\ levels = <<>> /\ shells = <<>>
    /\ occupancies = <<>> /\ subshells = <<>>
    /\ cerr = NoError
    /\ normalized = <<>>

ParIdle == values = <<>> /\ key = <<>> /\ atomic_parameters = <<>>

\* Configuration(arg), parameters.py:76-77
New ==
    /\ cpc = "new"
    /\ LET r == SetName(arg, Self)
       IN  /\ Becomes(r)
           /\ cpc' = IF r.err = NoError THEN "built" ELSE "failed"
    /\ UNCHANGED <<arg, normalized, parVars, elemVars, runVars>>

\* configuration.name = value, parameters.py:83-123
Assign(value) ==
    /\ Exists
    /\ arg' = value
    /\ LET r == SetName(value, Self)
       IN  /\ Becomes(r)
           /\ cpc' = IF r.err = NoError THEN "built" ELSE "rejected"
    /\ UNCHANGED <<normalized, parVars, elemVars, runVars>>

\* configuration = Configuration.from_subshells_and_occupancies(
\*     configuration.subshells, configuration.occupancies), lines 129-135
FromSubshells ==
    /\ Exists
    /\ LET nm == SubshellsName(subshells, occupancies)
           r == SetName(nm, Self)
       IN  /\ arg' = nm
           /\ Becomes(r)
           /\ cpc' = IF r.err = NoError THEN "derived" ELSE "rejected"
    /\ UNCHANGED <<normalized, parVars, elemVars, runVars>>

\* Cowan.normalize_configuration_name(configuration), lines 372-386
Normalize ==
    /\ Exists
    /\ normalized' = normalize_configuration_name(subshells, occupancies, name)
    /\ cpc' = "normalized"
    /\ UNCHANGED <<arg, name, levels, shells, occupancies, subshells, cerr,
                   parVars, elemVars, runVars>>

\* configuration.atomic_parameters = vals, lines 155-326
AssignParameters(vals) ==
    /\ Exists
    /\ LET r == SetAtomicParameters(vals, levels, shells, occupancies, atomic_parameters)
       IN  /\ values' = vals
           /\ key' = r.key
           /\ atomic_parameters' = r.dict
           /\ cerr' = r.err
           /\ cpc' = IF r.err = NoError THEN "assigned" ELSE "rejected"
    /\ UNCHANGED <<arg, name, levels, shells, occupancies, subshells, normalized,
                   elemVars, runVars>>

----------------------------------------------------------------------------
(* Element, parameters.py:25-70 *)

\* xdb.atomic_number(symbol): the position of the symbol in the periodic table
PERIODIC == <<
    "H", "He", "Li", "Be", "B", "C", "N", "O", "F", "Ne",
    "Na", "Mg", "Al", "Si", "P", "S", "Cl", "Ar", "K", "Ca",
    "Sc", "Ti", "V", "Cr", "Mn", "Fe", "Co", "Ni", "Cu", "Zn",
    "Ga", "Ge", "As", "Se", "Br", "Kr", "Rb", "Sr", "Y", "Zr",
    "Nb", "Mo", "Tc", "Ru", "Rh", "Pd", "Ag", "Cd", "In", "Sn",
    "Sb", "Te", "I", "Xe", "Cs", "Ba", "La", "Ce", "Pr", "Nd",
    "Pm", "Sm", "Eu", "Gd", "Tb", "Dy", "Ho", "Er", "Tm", "Yb",
    "Lu", "Hf", "Ta", "W", "Re", "Os", "Ir", "Pt", "Au", "Hg",
    "Tl", "Pb", "Bi", "Po", "At", "Rn", "Fr", "Ra", "Ac", "Th",
    "Pa", "U", "Np", "Pu", "Am", "Cm", "Bk", "Cf", "Es", "Fm",
    "Md", "No", "Lr">>
atomic_number(sym) == CHOOSE z \in DOMAIN PERIODIC : PERIODIC[z] = sym

\* Element.SUBSHELLS in the order of the dictionary; range(lo, hi) excludes hi
SUBSHELLS == <<
    [subshell |-> <<"3", "d">>, lo |-> 21, hi |-> 30 + 1, core_electrons |-> 18],
    [subshell |-> <<"4", "d">>, lo |-> 39, hi |-> 48 + 1, core_electrons |-> 36],
    [subshell |-> <<"4", "f">>, lo |-> 57, hi |-> 71 + 1, core_electrons |-> 54],
    [subshell |-> <<"5", "d">>, lo |-> 72, hi |-> 80 + 1, core_electrons |-> 68],
    [subshell |-> <<"5", "f">>, lo |-> 89, hi |-> 103 + 1, core_electrons |-> 86]>>

\* the value None, among values that are strings
None == <<"None">>

\* the position in SUBSHELLS of the first subshell whose range holds the
\* atomic number; 0 when valence_subshell returns None
ValenceIndex(sym) ==
    LET z == atomic_number(sym)
        hits == {i \in DOMAIN SUBSHELLS : z >= SUBSHELLS[i].lo /\ z < SUBSHELLS[i].hi}
    IN  IF hits = {} THEN 0 ELSE CHOOSE i \in hits : \A j \in hits : i <= j

valence_subshell(sym) ==
    IF ValenceIndex(sym) = 0 THEN None ELSE SUBSHELLS[ValenceIndex(sym)].subshell

\* s[::-1]
Reverse(s) == [i \in 1..Len(s) |-> s[Len(s) + 1 - i]]

\* int(s) for a string with an optional sign: can it be converted, and to what
IsInteger(s) ==
    \/ Len(s) >= 1 /\ AllDigits(s)
    \/ Len(s) >= 2 /\ s[1] \in {"+", "-"} /\ AllDigits(Tail(s))
SignedInt(s) ==
    IF s[1] = "-" THEN 0 - int(Tail(s))
    ELSE IF s[1] = "+" THEN int(Tail(s))
    ELSE int(s)

\* The outcome of reading Element.valence_occupancy, lines 51-65
ValenceOccupancy(sym, chg) ==
    IF chg = None
    THEN [err |-> Raise("AssertionError", "The charge must be set."), value |-> 0]
    ELSE IF ~IsInteger(Reverse(chg))
    THEN [err |-> Raise("ValueError", "invalid literal for int()"), value |-> 0]
    ELSE LET charge_ == SignedInt(Reverse(chg))
             ion_electrons == atomic_number(sym) - charge_
         IN  IF ValenceIndex(sym) = 0
             THEN [err |-> Raise("KeyError", "None"), value |-> 0]
             ELSE [err |-> NoError,
                   value |-> ion_electrons - SUBSHELLS[ValenceIndex(sym)].core_electrons]

\* largest magnitude written in a charge string
MaxCharge == 12

Signs == {"+", "-"}
Charges == {None}
           \cup {Dec(m) \o <<sg>> : m \in 0..MaxCharge, sg \in Signs}
           \cup {<<sg>> \o Dec(m) : m \in 0..MaxCharge, sg \in Signs}
           \cup {Dec(m) : m \in 0..MaxCharge}

ElemIdle ==
    /\ epc = "idle" /\ symbol = "Fe" /\ charge = None
    /\ valence_occupancy = 0 /\ eerr = NoError

\* Element(symbol, charge)
ElemInit ==
    /\ epc = "new"
    /\ symbol \in Range(PERIODIC)
    /\ charge \in Charges
    /\ valence_occupancy = 0
    /\ eerr = NoError

\* element.valence_occupancy
ReadValenceOccupancy ==
    /\ epc = "new"
    /\ LET r == ValenceOccupancy(symbol, charge)
       IN  /\ valence_occupancy' = r.value
           /\ eerr' = r.err
           /\ epc' = IF r.err = NoError THEN "read" ELSE "raised"
    /\ UNCHANGED <<symbol, charge, confVars, parVars, runVars>>

----------------------------------------------------------------------------
(* Cowan.get_parameters and main, parameters.py:388-504 *)

\* longest output file of RCN, in lines
MaxLines == 4

\* A line of the file basename.rcn_out: does it contain "ETOT=", and how many
\* white-space separated tokens has it.  The tokens that the code converts
\* with float() are numbers.
ETOT == [etot |-> TRUE, tokens |-> 2]
BLANK == [etot |-> FALSE, tokens |-> 0]
SHORT == [etot |-> FALSE, tokens |-> 6]
LONG == [etot |-> FALSE, tokens |-> 10]
Lines == {ETOT, BLANK, SHORT, LONG}

Missing == [exists |-> FALSE, lines |-> <<>>]
Files == {Missing} \cup {[exists |-> TRUE, lines |-> l] : l \in Strings(Lines, MaxLines)}

\* len(tokens[start::2]) for a list of n tokens
Strided(n, start) == IF n <= start THEN 0 ELSE (n - start + 1) \div 2

\* the k-th number read from the file is the number k
Extend(params, n) == params \o [i \in 1..n |-> Len(params) + i]

\* the two lines after the first line of parameters, lines 475-479
RECURSIVE ParseMore(_, _, _, _)
\* the loop  for line in fp  from line i on, lines 460-479
RECURSIVE ParseFrom(_, _, _)

ParseMore(lines, i, params, n) ==
    IF n = 0 THEN ParseFrom(lines, i, params)
    ELSE IF i > Len(lines)
    THEN [err |-> Raise("StopIteration", ""), params |-> params]
    ELSE ParseMore(lines, i + 1, Extend(params, Strided(lines[i].tokens, 0)), n - 1)

ParseFrom(lines, i, params) ==
    IF i > Len(lines) THEN [err |-> NoError, params |-> params]
    ELSE IF ~lines[i].etot THEN ParseFrom(lines, i + 1, params)
    ELSE LET blanks == {j \in (i + 1)..Len(lines) :
                            \A k \in (i + 1)..j : lines[k].tokens = 0}
             first == i + 1 + Cardinality(blanks)
         IN  IF first > Len(lines)
             THEN [err |-> Raise("StopIteration", ""), params |-> Extend(params, 1)]
             ELSE ParseMore(lines, first + 1,
                            Extend(Extend(params, 1), Strided(lines[first].tokens, 4)),
                            2)

\* Cowan.run(command): the exit status of the command is 0 or not
Statuses == {0, 1}

\* the value of Configuration.energy before it is set
NoEnergy == 0

RunInputs == {<<"3", "d", "5">>, <<"1", "s", "1", ",", "3", "d", "6">>,
              <<"4", "f", "3">>}

RunIdle ==
    /\ rpc = "idle" /\ remove = FALSE /\ debug = FALSE /\ rcn_out = Missing
    /\ status = 0 /\ ran = <<>> /\ parameters = <<>> /\ energy = NoEnergy

\* main after line 503: the arguments are parsed, the objects exist
RunInit ==
    /\ rpc = "rcn"
    /\ remove \in BOOLEAN
    /\ debug \in BOOLEAN
    /\ rcn_out = Missing
    /\ ran = <<>>
    /\ parameters = <<>>
    /\ energy = NoEnergy
    /\ status = 0
    /\ \E nm \in RunInputs :
          LET r == SetName(nm, [err |-> NoError, name |-> <<>>, levels |-> <<>>,
                                shells |-> <<>>, occupancies |-> <<>>,
                                subshells |-> <<>>])
          IN  /\ cpc = "built" /\ arg = nm /\ cerr = r.err /\ name = r.name
              /\ levels = r.levels /\ shells = r.shells
              /\ occupancies = r.occupancies /\ subshells = r.subshells
              /\ normalized = <<>>

\* Cowan.run(command), lines 388-399: the position after the command returned
\* this exit status, when next is the step that follows in get_parameters
\* the exit status not checked
RunUnchecked(st, next) == next
Run(st, next) == IF st # 0 THEN "exit" ELSE next

\* line 482: the step after the file is read
AfterParse(rm, dbg) == IF rm /\ ~dbg THEN "remove" ELSE "unpack"

\* self.rcn(), line 450
Rcn(st, out) ==
    /\ rpc = "rcn"
    /\ ran' = Append(ran, "rcn")
    /\ normalized' = normalize_configuration_name(subshells, occupancies, name)
    /\ status' = st
    /\ rcn_out' = IF st # 0 THEN rcn_out ELSE out
    /\ rpc' = Run(st, IF debug THEN "rcn2" ELSE "parse")
    /\ UNCHANGED <<cpc, arg, name, levels, shells, occupancies, subshells, cerr,
                   parVars, elemVars, remove, debug, parameters, energy>>

\* self.rcn2(), line 454
Rcn2(st) ==
    /\ rpc = "rcn2"
    /\ ran' = Append(ran, "rcn2")
    /\ status' = st
    /\ rpc' = Run(st, "rcg")
    /\ UNCHANGED <<confVars, parVars, elemVars, remove, debug, rcn_out,
                   parameters, energy>>

\* self.rcg(), line 455; os.rename fails when RCN2 left no basename.rcg.orig
Rcg(orig, st) ==
    /\ rpc = "rcg"
    /\ ran' = Append(ran, "rcg")
    /\ IF ~orig
       THEN rpc' = "raised" /\ UNCHANGED status
       ELSE status' = st /\ rpc' = Run(st, "parse")
    /\ UNCHANGED <<confVars, parVars, elemVars, remove, debug, rcn_out,
                   parameters, energy>>

\* lines 457-479: read basename.rcn_out
Parse ==
    /\ rpc = "parse"
    /\ ran' = Append(ran, "parse")
    /\ IF ~rcn_out.exists
       THEN rpc' = "raised" /\ UNCHANGED parameters
       ELSE LET r == ParseFrom(rcn_out.lines, 1, <<>>)
            IN  IF r.err # NoError
                THEN rpc' = "raised" /\ UNCHANGED parameters
                ELSE /\ parameters' = r.params
                     /\ rpc' = AfterParse(remove, debug)
    /\ UNCHANGED <<confVars, parVars, elemVars, remove, debug, rcn_out, status,
                   energy>>

\* self.remove_calculation_files(), lines 439-446 and 482-483
RemoveCalculationFiles ==
    /\ rpc = "remove"
    /\ ran' = Append(ran, "remove")
    /\ rcn_out' = Missing
    /\ rpc' = "unpack"
    /\ UNCHANGED <<confVars, parVars, elemVars, remove, debug, status,
                   parameters, energy>>

\* main, line 504: configuration.energy, *configuration.atomic_parameters = ...
Unpack ==
    /\ rpc = "unpack"
    /\ IF Len(parameters) = 0
       THEN /\ rpc' = "raised"
            /\ UNCHANGED <<energy, parVars, cerr>>
       ELSE LET r == SetAtomicParameters(Tail(parameters), levels, shells,
                                         occupancies, atomic_parameters)
            IN  /\ energy' = parameters[1]
                /\ values' = Tail(parameters)
                /\ key' = r.key
                /\ atomic_parameters' = r.dict
                /\ cerr' = r.err
                /\ rpc' = IF r.err = NoError THEN "done" ELSE "raised"
    /\ UNCHANGED <<cpc, arg, name, levels, shells, occupancies, subshells,
                   normalized, elemVars, remove, debug, rcn_out, status, ran,
                   parameters>>

----------------------------------------------------------------------------
(* Specifications *)

\* largest number of raw values assigned to atomic_parameters
MaxValues == 12

\* the i-th raw value is the number i; no raw value is the filler
RawValues(n) == [i \in 1..n |-> i]

\* Construction of a Configuration from a string, and the calls that read it.
Init == ConfInit(Inputs) /\ ParIdle /\ ElemIdle /\ RunIdle
Next == New \/ FromSubshells \/ Normalize
Spec == Init /\ [][Next]_vars

\* A Configuration whose name is assigned again and again.
InitAssign == ConfInit(AssignInputs) /\ ParIdle /\ ElemIdle /\ RunIdle
NextAssign == New \/ (\E v \in AssignInputs : Assign(v))
SpecAssign == InitAssign /\ [][NextAssign]_vars

\* A Configuration whose atomic_parameters are assigned.
ParamLevel == [s |-> "1", p |-> "2", d |-> "3", f |-> "4"]
ParamSingles == {Written(ParamLevel[sh], sh, n, 0) :
                    sh \in DOMAIN OCCUPANCIES, n \in 0..MaxOccupancy}
ParamInputs == ParamSingles
               \cup {a \o <<",">> \o b : a \in ParamSingles, b \in ParamSingles}
InitParams == ConfInit(ParamInputs) /\ ParIdle /\ ElemIdle /\ RunIdle
NextParams == New \/ (\E n \in 0..MaxValues : AssignParameters(RawValues(n)))
SpecParams == InitParams /\ [][NextParams]_vars

\* An Element whose valence occupancy is read.
InitElement ==
    /\ ConfInit({<<"3", "d", "5">>}) /\ ParIdle /\ ElemInit /\ RunIdle
NextElement == ReadValenceOccupancy
SpecElement == InitElement /\ [][NextElement]_vars

\* A run of main.
InitRun == RunInit /\ ParIdle /\ ElemIdle
NextRun ==
    \/ \E st \in Statuses, out \in Files : Rcn(st, out)
    \/ \E st \in Statuses : Rcn2(st)
    \/ \E orig \in BOOLEAN, st \in Statuses : Rcg(orig, st)
    \/ Parse
    \/ RemoveCalculationFiles
    \/ Unpack
SpecRun == InitRun /\ [][NextRun]_vars

----------------------------------------------------------------------------
(* What the specification says of configuration strings *)

ShellLetters == {"s", "p", "d", "f"}
Capacity(sh) == CASE sh = "s" -> 2 [] sh = "p" -> 6 [] sh = "d" -> 10 [] sh = "f" -> 14

\* the digits ds are a decimal numeral of n, leading zeros allowed
Numeral(ds, n) ==
    /\ Len(ds) >= 1
    /\ \E k \in 0..(Len(ds) - 1) : ds = Zeros(k) \o Dec(n)

\* t is "{level}{shell}{occupancy}"
GrammarTriple(t) ==
    /\ Len(t) >= 3
    /\ t[1] \in DigitChars
    /\ t[2] \in ShellLetters
    /\ \A i \in 3..Len(t) : t[i] \in DigitChars

\* the places where a splits into two triples around a comma
Splits(a) == {k \in DOMAIN a : /\ a[k] = ","
                               /\ GrammarTriple(SubSeq(a, 1, k - 1))
                               /\ GrammarTriple(SubSeq(a, k + 1, Len(a)))}

\* a matches one of the two grammars of the specification
MatchesGrammar(a) == GrammarTriple(a) \/ Splits(a) # {}

\* the (shell, occupancy) pairs that a triple of the grammar can be read as
TripleReadings(t) ==
    {<<t[2], n>> : n \in {m \in 0..MaxOccupancy : Numeral(SubSeq(t, 3, Len(t)), m)}}

\* the sequences of (shell, occupancy) pairs that a can be read as
Readings(a) ==
    (IF GrammarTriple(a) THEN {<<r>> : r \in TripleReadings(a)} ELSE {})
    \cup UNION {{<<r1, r2>> : r1 \in TripleReadings(SubSeq(a, 1, k - 1)),
                              r2 \in TripleReadings(SubSeq(a, k + 1, Len(a)))}
                : k \in Splits(a)}

Constructed == cpc \in {"built", "failed"}

\* C1: a string of the grammar whose core or valence occupancy exceeds the
\* capacity of its shell is refused with a ValueError; any other string of
\* the grammar is accepted with the occupancies it writes, unclamped; so no
\* built Configuration has an occupancy above the capacity of its shell.
C1_OccupancyChecked ==
    /\ Constructed =>
         \A rd \in Readings(arg) :
            IF \E i \in DOMAIN rd : rd[i][2] > Capacity(rd[i][1])
            THEN cpc = "failed" /\ cerr.type = "ValueError"
            ELSE /\ cpc = "built"
                 /\ cerr = NoError
                 /\ occupancies = [i \in DOMAIN rd |-> rd[i][2]]
                 /\ shells = [i \in DOMAIN rd |-> rd[i][1]]
    /\ cpc = "built" =>
         \A i \in DOMAIN shells :
            shells[i] \in ShellLetters /\ occupancies[i] <= Capacity(shells[i])

\* a string with a core occupancy above the capacity has been refused
C1_Witness ==
    /\ cpc = "failed"
    /\ arg = <<"1", "s", "3", ",", "3", "d", "6">>
    /\ cerr = Raise("ValueError", "Wrong number of electrons in the core shell.")

\* C2: a string that matches neither grammar is refused with the ValueError
\* "invalid configuration string", no other error is raised, and no built
\* Configuration has a shell letter outside s, p, d, f.
C2_InvalidStringRefused ==
    /\ (Constructed /\ ~MatchesGrammar(arg)) =>
         /\ cpc = "failed"
         /\ cerr = Raise("ValueError", "Invalid configuration string.")
    /\ Constructed => cerr.type \in {"none", "ValueError"}
    /\ cpc = "built" => \A i \in DOMAIN shells : shells[i] \in ShellLetters

\* C3: after any sequence of accepted and refused assignments to name the
\* four fields are the ones written in the stored name: equal lengths, 1 or
\* 2, each subshell its level followed by its shell, is_excited iff two
\* shells; a refused assignment changes neither the name nor the fields.
FieldsOfName ==
    /\ Len(levels) = Len(shells)
    /\ Len(occupancies) = Len(shells)
    /\ Len(subshells) = Len(shells)
    /\ Len(shells) \in {1, 2}
    /\ \A i \in DOMAIN subshells :
          /\ Len(subshells[i]) = 2
          /\ levels[i] \in 0..9
          /\ subshells[i][1] = DIGITS[levels[i] + 1]
          /\ subshells[i][2] = shells[i]
    /\ is_excited <=> Len(subshells) = 2
    /\ \E pads \in [DOMAIN shells -> 0..MaxPad], end \in {<<>>, <<"\n">>} :
          name = Join(<<",">>, [i \in DOMAIN shells |->
                                   subshells[i] \o Zeros(pads[i]) \o Dec(occupancies[i])])
                 \o end

C3_FieldsFollowName ==
    [][/\ Exists' => FieldsOfName'
       /\ cerr' # NoError => UNCHANGED <<name, levels, shells, occupancies, subshells>>
      ]_vars

\* an assignment to the name of a core and valence configuration was refused
C3_Witness ==
    /\ cpc = "rejected"
    /\ arg = <<"3", "d", "1", "1">>
    /\ name = <<"3", "s", "1", ",", "3", "d", "0", "6">>
    /\ subshells = <<<<"3", "s">>, <<"3", "d">>>>

\* C4: from_subshells_and_occupancies(c.subshells, c.occupancies) succeeds
\* with the levels, shells, occupancies and subshells of c, and applied to
\* its own result it gives the same name again.
C4_RoundTrip ==
    [][(Exists /\ cpc' \in {"derived", "rejected"}) =>
          /\ cpc' = "derived"
          /\ cerr' = NoError
          /\ levels' = levels
          /\ shells' = shells
          /\ occupancies' = occupancies
          /\ subshells' = subshells
          /\ cpc = "derived" => name' = name
      ]_vars

\* the helper has rebuilt a core and valence configuration
C4_Witness ==
    /\ cpc = "derived"
    /\ name = <<"1", "s", "1", ",", "3", "d", "6">>
    /\ occupancies = <<1, 6>>

----------------------------------------------------------------------------
(* The particle classification *)

\* the numbers that the setter puts in key for the three classes
ClassCode(class) == CASE class = "zero" -> 0 [] class = "one" -> 1 [] class = "multiple" -> -1

\* the classification as the specification gives it
particle_class(sh, occ) ==
    IF occ = 0 \/ occ = Capacity(sh) THEN "zero"
    ELSE IF occ = 1 \/ occ = Capacity(sh) - 1 THEN "one"
    ELSE "multiple"

\* the same, but an s shell with one electron is "multiple"
particle_class_s(sh, occ) ==
    IF occ = 0 \/ occ = Capacity(sh) THEN "zero"
    ELSE IF sh # "s" /\ (occ = 1 \/ occ = Capacity(sh) - 1) THEN "one"
    ELSE "multiple"

Classified == cpc \in {"assigned", "rejected"} /\ key # <<>>

\* C5 as written: the key of every shell is the class of the specification,
\* so that the core shell of 1s1,3d6 is "one".
C5_ClassOfSpecification ==
    Classified =>
       /\ Len(key) = Len(shells)
       /\ \A i \in DOMAIN key :
             key[i] = ClassCode(particle_class(shells[i], occupancies[i]))

\* C5: the class that selects the table entry depends on the shell letter
\* and the occupancy only, alike for core and valence: zero for 0 and for the
\* capacity; one for 1 and capacity - 1 of a p, d or f shell; multiple
\* otherwise, an s shell with one electron included.
C5_ClassOfCode ==
    Classified =>
       /\ Len(key) = Len(shells)
       /\ \A i \in DOMAIN key :
             key[i] = ClassCode(particle_class_s(shells[i], occupancies[i]))

\* the parameters of 1s1,3d6 were assigned with the core classified multiple
C5_Witness ==
    /\ cpc = "assigned"
    /\ name = <<"1", "s", "1", ",", "3", "d", "6">>
    /\ key = <<-1, -1>>

\* C10: the classification of a shell with n electrons is that of the shell
\* with n holes, so both select the same row of the table.
C10_ParticleHole ==
    Classified =>
       LET holes == [i \in DOMAIN shells |-> Capacity(shells[i]) - occupancies[i]]
       IN  \A i \in DOMAIN key : key[i] = OccupancyKey(holes[i], shells[i])

\* a d shell with one hole was classified like a d shell with one electron
C10_Witness ==
    /\ cpc = "assigned"
    /\ shells = <<"d">>
    /\ occupancies = <<9>>
    /\ key = <<1>>

----------------------------------------------------------------------------
(* Element.valence_occupancy *)

\* C6 as written: for an element of one of the five ranges and a charge
\* written magnitude then sign, of one digit or more, valence_occupancy is
\* atomic_number - charge - core_electrons, the charge being the signed
\* integer that the string denotes.
C6_ValenceOccupancy ==
    (epc \in {"read", "raised"} /\ ValenceIndex(symbol) # 0) =>
       \A m \in 0..MaxCharge, sg \in Signs :
          charge = Dec(m) \o <<sg>> =>
             /\ epc = "read"
             /\ valence_occupancy =
                   atomic_number(symbol) - (IF sg = "+" THEN m ELSE 0 - m)
                   - SUBSHELLS[ValenceIndex(symbol)].core_electrons

----------------------------------------------------------------------------
(* Cowan.normalize_configuration_name *)

TwoDigits(n) == <<DIGITS[(n \div 10) + 1], DIGITS[(n % 10) + 1]>>

InSubshells(label) == \E i \in DOMAIN subshells : subshells[i] = label

\* the i-th pair as the specification renders it; with4f adds the token of
\* the filled 3d shell
Rendered(i, with4f) ==
    (IF subshells[i] = <<"5", "d">> /\ ~InSubshells(<<"4", "f">>)
     THEN <<"4", "F", "1", "4", " ">>
     ELSE IF with4f /\ subshells[i] = <<"4", "f">> /\ ~InSubshells(<<"3", "d">>)
     THEN <<"3", "D", "1", "0", " ">>
     ELSE <<>>)
    \o <<subshells[i][1], UpperChar(subshells[i][2])>>
    \o TwoDigits(occupancies[i])

\* C7 as written: the only subshell that gets an extra token is a 5d
\* subshell of a configuration without a 4f subshell.
C7_Only5d ==
    cpc = "normalized" =>
       normalized = Join(<<" ">>, [i \in DOMAIN subshells |-> Rendered(i, FALSE)])

\* C7: the pairs are rendered in order, upper case, occupancy on two digits,
\* joined by single spaces; a 5d subshell without a 4f subshell is preceded
\* by "4F14 ", and a 4f subshell without a 3d subshell by "3D10 ".
C7_Normalized ==
    cpc = "normalized" =>
       normalized = Join(<<" ">>, [i \in DOMAIN subshells |-> Rendered(i, TRUE)])

\* a lone 4f subshell was normalized
C7_Witness ==
    /\ cpc = "normalized"
    /\ name = <<"4", "f", "5">>
    /\ normalized = <<"3", "D", "1", "0", " ", "4", "F", "0", "5">>

----------------------------------------------------------------------------
(* The values stored by the atomic_parameters setter *)

Family == Join(<<",">>, [i \in DOMAIN shells |-> <<shells[i]>>])
SelectedRow == Row(Mapping(Family).indices, key)
Stored == Min(Len(Mapping(Family).names), Len(SelectedRow))

\* C8 as written: the mapping has as many names as there are raw values, no
\* name holds a filler and no raw value is left out.
C8_CountsAgree ==
    cpc = "assigned" =>
       /\ Len(atomic_parameters) = Len(values)
       /\ \A i \in DOMAIN atomic_parameters : atomic_parameters[i][2] # FILLER
       /\ \A v \in DOMAIN values :
             \E i \in DOMAIN atomic_parameters : atomic_parameters[i][2] = values[v]

\* C8: the mapping has one name for each index of the selected row of the
\* table, whatever the number of raw values: a name whose index is -1 holds
\* the filler 0.0, any other name holds the raw value at its index, and the
\* raw values at other positions are left out; the setter fails, with an
\* IndexError, whenever an index of the row is not below the number of raw
\* values.
C8_RowDecides ==
    /\ cpc = "assigned" =>
          /\ Len(atomic_parameters) = Stored
          /\ \A i \in DOMAIN atomic_parameters :
                atomic_parameters[i][2] =
                   IF SelectedRow[i] = -1 THEN FILLER ELSE values[SelectedRow[i] + 1]
    /\ (Classified /\ HasRow(Mapping(Family).indices, key)
        /\ \E i \in 1..Stored : SelectedRow[i] >= Len(values)) =>
          cpc = "rejected" /\ cerr.type = "IndexError"

\* 3d5 was given five raw values: four names, one filler, two values left out
C8_Witness ==
    /\ cpc = "assigned"
    /\ name = <<"3", "d", "5">>
    /\ Len(values) = 5
    /\ Len(atomic_parameters) = 4
    /\ atomic_parameters[1][2] = FILLER

----------------------------------------------------------------------------
(* The order of a run *)

IsPrefix(a, b) == Len(a) <= Len(b) /\ a = SubSeq(b, 1, Len(a))
Ran(step) == \E i \in DOMAIN ran : ran[i] = step
NothingWritten == energy = NoEnergy /\ atomic_parameters = <<>>

\* C9 as written: the steps run in the order rcn, rcn2, rcg, parse, cleanup,
\* the three stages all run before the output is parsed whatever the flags,
\* and after a nonzero exit status nothing more runs or is written.
C9_AllStagesBeforeParse ==
    /\ IsPrefix(ran, <<"rcn", "rcn2", "rcg", "parse", "remove">>)
    /\ Ran("parse") => Ran("rcn") /\ Ran("rcn2") /\ Ran("rcg")
    /\ status # 0 => rpc = "exit" /\ NothingWritten

\* the steps that get_parameters takes with these flags
Plan == IF debug THEN <<"rcn", "rcn2", "rcg", "parse">>
        ELSE IF remove THEN <<"rcn", "parse", "remove">>
        ELSE <<"rcn", "parse">>

\* C9: a run is sequential: rcn first; rcn2 and then rcg only when debug is
\* set; then the parse; then the cleanup only when remove is set and debug is
\* not; the result is unpacked only after all of these; and a nonzero exit
\* status of a stage ends the run: nothing runs and nothing is written after.
C9_Sequential ==
    /\ [](/\ IsPrefix(ran, Plan)
          /\ rpc \in {"unpack", "done"} => ran = Plan
          /\ ~NothingWritten => ran = Plan /\ rpc \in {"done", "raised"}
          /\ status # 0 => rpc = "exit"
          /\ rpc = "exit" => status # 0 /\ NothingWritten /\ parameters = <<>>)
    /\ [][rpc # "exit"]_vars

\* the second stage failed in a debug run, which ended there
C9_Witness ==
    /\ rpc = "exit"
    /\ debug
    /\ status = 1
    /\ ran = <<"rcn", "rcn2">>

----------------------------------------------------------------------------
(* The names stored by the atomic_parameters setter *)

\* a list of raw values that holds every index of every row of the table
LongEnough(vals) ==
    \A m \in DOMAIN MAPPINGS : \A e \in MAPPINGS[m].indices :
       \A i \in DOMAIN e[2] : e[2][i] < Len(vals)

\* C11 as written: for a Configuration of one of the seven families of the
\* table, every occupancy class and a list of raw values that is long enough,
\* the atomic_parameters setter succeeds, every subshell label in a name of
\* the mapping is a subshell of the configuration, and the mapping holds the
\* spin-orbit name of the valence subshell.
C11_NamesOfConfiguration ==
    (cpc \in {"assigned", "rejected"} /\ HasMapping(Family) /\ LongEnough(values)) =>
       /\ cpc = "assigned"
       /\ \A i \in DOMAIN atomic_parameters :
             \A j \in DOMAIN atomic_parameters[i][1].subshells :
                InSubshells(atomic_parameters[i][1].subshells[j])
       /\ \E i \in DOMAIN atomic_parameters :
             /\ atomic_parameters[i][1].kind = "zeta"
             /\ atomic_parameters[i][1].subshells = <<subshells[Len(subshells)]>>

====
